---- MODULE Spec2Model ----
(***************************************************************************)
(* Smart Movie Recommender (src/aw.py): a Streamlit script that loads a    *)
(* CSV catalog, builds a TF-IDF cosine-similarity matrix over it and       *)
(* answers two queries, recommend_content and recommend_attributes.        *)
(*                                                                         *)
(* A pandas cell is a tuple: <<v>> holds the value v, <<>> is NaN.         *)
(* Numbers are kept in tenths (8.8 is 88, the year 1995 is 19950).         *)
(* Positions and index labels are 1-based here and 0-based in the code.    *)
(***************************************************************************)
EXTENDS Integers, Sequences, FiniteSets, TLC

VARIABLES
  csv,                \* the rows of imdb_top_1000.csv, every cell as text
  cache,              \* st.cache_data's store for load_data: <<>> or <<frame>>
  df,                 \* the module-level df of the current run
  similarity_matrix,  \* the module-level similarity_matrix of the current run
  pc,                 \* the position of the running script
  runs,               \* script runs started so far
  loads,              \* executions of load_data's body
  builds,             \* executions of build_similarity_matrix
  selected_tab, selected_title, genres, stars, years, min_rating,
  defined,            \* the names the sidebar block has bound in this run
  namesRead,          \* the sidebar names the result dispatch has read
  results,            \* what the last query or dispatch produced
  simReads,           \* reads of the similarity matrix by the last query
  weights             \* the cosine of each pair of vectors that share a term
                      \* without pointing the same way, as the TF-IDF
                      \* arithmetic gives it for this file

vars == <<csv, cache, df, similarity_matrix, pc, runs, loads, builds,
          selected_tab, selected_title, genres, stars, years, min_rating,
          defined, namesRead, results, simReads, weights>>

-----------------------------------------------------------------------------
(* Cells, text and numbers *)

NaN == <<>>

isna(c) == c = NaN

fillna(c, v) == IF isna(c) THEN <<v>> ELSE c

Char(s, i) == SubSeq(s, i, i)

Digits == "0123456789"

DigitChars == {Char(Digits, k) : k \in 1..Len(Digits)}

IsDigit(c) == c \in DigitChars

DigitVal(c) == (CHOOSE k \in 1..Len(Digits) : Char(Digits, k) = c) - 1

RECURSIVE ParseInt(_, _, _)
ParseInt(s, i, acc) ==
  IF i > Len(s) THEN acc
  ELSE ParseInt(s, i + 1, 10 * acc + DigitVal(Char(s, i)))

AllDigits(s) == Len(s) > 0 /\ \A i \in 1..Len(s) : IsDigit(Char(s, i))

DotAt(s) == {i \in 1..Len(s) : Char(s, i) = "."}

\* The text of a decimal number with at most one fractional digit, in tenths;
\* any other text does not parse (the inputs drawn below hold no other
\* spelling of a number).
ParseTenths(s) ==
  IF AllDigits(s) THEN <<10 * ParseInt(s, 1, 0)>>
  ELSE IF /\ DotAt(s) = {Len(s) - 1}
          /\ AllDigits(SubSeq(s, 1, Len(s) - 2))
          /\ IsDigit(Char(s, Len(s)))
       THEN <<10 * ParseInt(SubSeq(s, 1, Len(s) - 2), 1, 0)
               + DigitVal(Char(s, Len(s)))>>
       ELSE NaN

\* pd.to_numeric(..., errors='coerce') on one cell
to_numeric(c) == IF isna(c) THEN NaN ELSE ParseTenths(c[1])

-----------------------------------------------------------------------------
(* load_data *)

Columns == {"Series_Title", "Released_Year", "IMDB_Rating", "Genre",
            "Director", "Star1", "Star2", "Star3", "Star4", "Overview"}

\* read_csv's default na_values
NaValues == {"", "#N/A", "#N/A N/A", "#NA", "-1.#IND", "-1.#QNAN", "-NaN",
             "-nan", "1.#IND", "1.#QNAN", "<NA>", "N/A", "NA", "NULL", "NaN",
             "None", "n/a", "nan", "null"}

\* pd.read_csv: one frame row per file row, labelled by its position
read_csv(file) ==
  [i \in 1..Len(file) |->
     [c \in Columns |-> IF file[i][c] \in NaValues THEN NaN ELSE <<file[i][c]>>]
       @@ [index |-> i]]

RECURSIVE SelectRows(_, _)
\* frame[mask]: the rows at the positions in keep, in frame order
SelectRows(frame, keep) ==
  IF frame = <<>> THEN <<>>
  ELSE LET n == Len(frame)
           init == SelectRows(SubSeq(frame, 1, n - 1), keep)
       IN IF n \in keep THEN Append(init, frame[n]) ELSE init

dropna_title(frame) ==
  SelectRows(frame, {i \in 1..Len(frame) : ~isna(frame[i].Series_Title)})

clean_row(r) ==
  [r EXCEPT !.Released_Year = to_numeric(@),
            !.IMDB_Rating = to_numeric(@),
            !.Genre = fillna(@, ""),
            !.Star1 = fillna(@, ""), !.Star2 = fillna(@, ""),
            !.Star3 = fillna(@, ""), !.Star4 = fillna(@, "")]

load_data_dropbad(file) ==
  LET raw == read_csv(file)
      kept == SelectRows(raw, {i \in 1..Len(raw) :
                 /\ ~isna(raw[i].Series_Title)
                 /\ ~isna(to_numeric(raw[i].IMDB_Rating))})
  IN [i \in 1..Len(kept) |-> clean_row(kept[i])]

load_data(file) ==
  LET kept == dropna_title(read_csv(file))
  IN [i \in 1..Len(kept) |-> clean_row(kept[i])]

-----------------------------------------------------------------------------
(* build_similarity_matrix *)

\* Series + Series on one row: NaN if either side is NaN
str_add(a, b) == IF isna(a) \/ isna(b) THEN NaN ELSE <<a[1] \o b[1]>>

metadata_of(r) ==
  str_add(str_add(str_add(str_add(str_add(str_add(str_add(str_add(str_add(
    str_add(str_add(str_add(fillna(r.Overview, ""), <<" ">>), r.Genre), <<" ">>),
    r.Director), <<" ">>), r.Star1), <<" ">>), r.Star2), <<" ">>), r.Star3),
    <<" ">>), r.Star4)

\* data['metadata'] = ...: the column is added to (or replaced in) the frame
\* the caller passed
add_metadata(data) ==
  [i \in 1..Len(data) |->
     [metadata |-> metadata_of(data[i])]
       @@ [c \in DOMAIN data[i] \ {"metadata"} |-> data[i][c]]]

UpperCase == "ABCDEFGHIJKLMNOPQRSTUVWXYZ"
LowerCase == "abcdefghijklmnopqrstuvwxyz"

UpperChars == {Char(UpperCase, k) : k \in 1..Len(UpperCase)}
LowerChars == {Char(LowerCase, k) : k \in 1..Len(LowerCase)}

IsUpper(c) == c \in UpperChars
IsLower(c) == c \in LowerChars

\* \w of the token pattern (?u)\b\w\w+\b
IsWordChar(c) == IsLower(c) \/ IsUpper(c) \/ IsDigit(c) \/ c = "_"

lower(c) ==
  IF IsUpper(c)
  THEN Char(LowerCase, CHOOSE k \in 1..Len(UpperCase) : Char(UpperCase, k) = c)
  ELSE c

\* Words of sklearn's English stop-word list (the ones the inputs can hold)
StopWords == {"the", "and", "of", "in", "to", "an", "is", "on", "for", "with"}

KeepToken(acc, word) ==
  IF Len(word) >= 2 /\ word \notin StopWords THEN Append(acc, word) ELSE acc

RECURSIVE Scan(_, _, _, _)
Scan(s, i, word, acc) ==
  IF i > Len(s) THEN KeepToken(acc, word)
  ELSE IF IsWordChar(Char(s, i))
       THEN Scan(s, i + 1, word \o lower(Char(s, i)), acc)
       ELSE Scan(s, i + 1, "", KeepToken(acc, word))

\* TfidfVectorizer(stop_words='english')'s analyzer: lower-cased runs of two or
\* more word characters, stop words removed
Tokenize(s) == Scan(s, 1, "", <<>>)

Terms(tokens) == {tokens[k] : k \in 1..Len(tokens)}

TermCount(tokens, t) == Cardinality({k \in 1..Len(tokens) : tokens[k] = t})

\* The TF-IDF vectors of a and b point the same way: the same terms, in
\* proportional counts (the idf weight of a term is the same in both)
Proportional(a, b) ==
  /\ Terms(a) = Terms(b)
  /\ Terms(a) # {}
  /\ \A t, u \in Terms(a) :
       TermCount(a, t) * TermCount(b, u) = TermCount(a, u) * TermCount(b, t)

SimFull == 3

\* The term-count vector of a document
Bag(tokens) == [t \in Terms(tokens) |-> TermCount(tokens, t)]

\* The pairs of distinct vectors, among those of docs, that share a term and
\* do not point the same way
PartialPairs(docs) ==
  {{Bag(docs[i]), Bag(docs[j])} : <<i, j>> \in
     {p \in (1..Len(docs)) \X (1..Len(docs)) :
        /\ Terms(docs[p[1]]) \cap Terms(docs[p[2]]) # {}
        /\ ~Proportional(docs[p[1]], docs[p[2]])}}

\* cosine_similarity(tfidf_matrix), on a scale of 0..SimFull: 0 for documents
\* that share no term (a document without terms is the zero vector, which the
\* normalisation leaves zero, its own diagonal entry included), SimFull for
\* vectors that point the same way, and for every other pair of vectors the
\* value strictly between that the term weights give (part): one value per pair
\* of vectors, so the matrix is symmetric and equal documents have equal rows
cosine_similarity(docs, part) ==
  [i \in 1..Len(docs) |-> [j \in 1..Len(docs) |->
     IF Terms(docs[i]) \cap Terms(docs[j]) = {} THEN 0
     ELSE IF Proportional(docs[i], docs[j]) THEN SimFull
     ELSE part[{Bag(docs[i]), Bag(docs[j])}]]]

\* fit_transform raises ValueError on a NaN document and on an empty vocabulary
TfidfFails(data) ==
  \/ \E i \in 1..Len(data) : isna(data[i].metadata)
  \/ \A i \in 1..Len(data) : Tokenize(data[i].metadata[1]) = <<>>

\* build_similarity_matrix(data): the frame as the call leaves it, and the
\* matrix returned or the error raised
build_similarity_matrix(data, part) ==
  LET withMeta == add_metadata(data)
  IN IF TfidfFails(withMeta)
     THEN [data |-> withMeta, matrix |-> <<>>, error |-> "ValueError"]
     ELSE [data |-> withMeta, error |-> "none",
           matrix |-> cosine_similarity(
             [i \in 1..Len(withMeta) |-> Tokenize(withMeta[i].metadata[1])], part)]

-----------------------------------------------------------------------------
(* recommend_content *)

ContentSliceEnd == 11

Min(a, b) == IF a < b THEN a ELSE b

RECURSIVE InsertDesc(_, _, _)
\* position i put into the descending order `sorted`, after every position
\* whose score is not smaller
InsertDesc(sorted, i, score) ==
  IF sorted = <<>> THEN <<i>>
  ELSE IF score[Head(sorted)] >= score[i]
       THEN <<Head(sorted)>> \o InsertDesc(Tail(sorted), i, score)
       ELSE <<i>> \o sorted

RECURSIVE SortedDesc(_, _)
\* sorted(enumerate(score), key=lambda x: x[1], reverse=True): a stable sort, so
\* equal scores keep their enumeration order
SortedDesc(score, n) ==
  IF n = 0 THEN <<>> ELSE InsertDesc(SortedDesc(score, n - 1), n, score)

\* df.iloc[positions]
iloc(d, positions) == [k \in 1..Len(positions) |-> d[positions[k]]]

TitleRows(d, title) == {i \in 1..Len(d) : d[i].Series_Title = <<title>>}

ContentResult(rows, error, reads) ==
  [source |-> "recommend_content", rows |-> rows, error |-> error, reads |-> reads]

\* Lines 42-46: the rows most similar to the row at position first
similar_rows(first, d, sim_matrix) ==
  LET idx == d[first].index
  IN IF idx > Len(sim_matrix) THEN ContentResult(<<>>, "IndexError", 1)
     ELSE LET scores == sim_matrix[idx]
              order == SortedDesc(scores, Len(scores))
              movie_indices == SubSeq(order, 2, Min(ContentSliceEnd, Len(order)))
          IN ContentResult(iloc(d, movie_indices), "none", 1)

FirstOf(hits) == CHOOSE i \in hits : \A j \in hits : i <= j

recommend_content_noguard(title, d, sim_matrix) ==
  LET hits == TitleRows(d, title)
  IN IF hits = {} THEN ContentResult(<<>>, "IndexError", 0)
     ELSE similar_rows(FirstOf(hits), d, sim_matrix)

\* idx is the index label of the first row carrying the title, and
\* sim_matrix[idx] and df.iloc[...] go by position
recommend_content(title, d, sim_matrix) ==
  LET hits == TitleRows(d, title)
  IN IF hits = {} THEN ContentResult(<<>>, "none", 0)
     ELSE similar_rows(FirstOf(hits), d, sim_matrix)

-----------------------------------------------------------------------------
(* recommend_attributes *)

HeadCount == 10

\* g in x, on strings
contains(g, x) ==
  \E i \in 1..(Len(x) - Len(g) + 1) : SubSeq(x, i, i + Len(g) - 1) = g

\* lambda x: any(g in x for g in genres)
genre_pass(x, wanted) == \E g \in wanted : contains(g, x[1])

star_contains(row, wanted) ==
  \E star \in {row.Star1, row.Star2, row.Star3, row.Star4} :
    \E w \in wanted : contains(w, star[1])

\* lambda row: any(star in stars for star in row): membership in the list
star_pass(row, wanted) ==
  \E star \in {row.Star1, row.Star2, row.Star3, row.Star4} : star[1] \in wanted

\* lambda y: y in years: a float against a list of ints; NaN equals nothing
year_pass(y, wanted) == ~isna(y) /\ \E w \in wanted : y[1] = 10 * w

rating_pass_nan_as_zero(r, rating) == IF isna(r) THEN 0 >= rating ELSE r[1] >= rating

\* filtered['IMDB_Rating'] >= rating: a comparison with NaN is False
rating_pass(r, rating) == ~isna(r) /\ r[1] >= rating

RECURSIVE DescendingOrders(_, _)
\* Every order of the positions in S in which the ratings never increase
DescendingOrders(frame, S) ==
  IF S = {} THEN {<<>>}
  ELSE LET top == {i \in S : \A j \in S :
                     frame[i].IMDB_Rating[1] >= frame[j].IMDB_Rating[1]}
       IN UNION {{<<i>> \o rest : rest \in DescendingOrders(frame, S \ {i})} :
                   i \in top}

\* frame.sort_values(by="IMDB_Rating", ascending=False): the default kind,
\* quicksort, is not stable, so rows of equal rating may come out in any order;
\* NaN ratings go last, in frame order
sort_values(frame) ==
  LET rated == {i \in 1..Len(frame) : ~isna(frame[i].IMDB_Rating)}
      unrated == SelectRows(frame, (1..Len(frame)) \ rated)
  IN {iloc(frame, order) \o unrated : order \in DescendingOrders(frame, rated)}

head_all(frame) == frame

head(frame) == SubSeq(frame, 1, Min(HeadCount, Len(frame)))

AttributesResult(rows) ==
  [source |-> "recommend_attributes", rows |-> rows, error |-> "none", reads |-> 0]

\* The outcomes of recommend_attributes(d, genres, stars, years, rating)
recommend_attributes(d, wantGenres, wantStars, wantYears, rating) ==
  LET pass == {i \in 1..Len(d) :
                 /\ wantGenres # {} => genre_pass(d[i].Genre, wantGenres)
                 /\ wantStars # {} => star_pass(d[i], wantStars)
                 /\ wantYears # {} => year_pass(d[i].Released_Year, wantYears)
                 /\ rating_pass(d[i].IMDB_Rating, rating)}
      filtered == SelectRows(d, pass)
  IN {AttributesResult(head(sorted)) : sorted \in sort_values(filtered)}

-----------------------------------------------------------------------------
(* The sidebar and the result dispatch of the script *)

FindTab == "Find Similar Movies"
FilterTab == "Filter by Attributes"

RECURSIVE lstrip(_)
lstrip(s) == IF Len(s) > 0 /\ Char(s, 1) = " " THEN lstrip(SubSeq(s, 2, Len(s))) ELSE s

RECURSIVE rstrip(_)
rstrip(s) ==
  IF Len(s) > 0 /\ Char(s, Len(s)) = " " THEN rstrip(SubSeq(s, 1, Len(s) - 1)) ELSE s

strip(s) == lstrip(rstrip(s))

RECURSIVE SplitFrom(_, _, _)
\* the pieces of s from position i on, piece being the text since the last comma
SplitFrom(s, i, piece) ==
  IF i > Len(s) THEN {piece}
  ELSE IF Char(s, i) = "," THEN {piece} \cup SplitFrom(s, i + 1, "")
  ELSE SplitFrom(s, i + 1, piece \o Char(s, i))

\* {g.strip() for sublist in df['Genre'].dropna().str.split(',') for g in sublist}
unique_genres(d) ==
  UNION {{strip(g) : g \in SplitFrom(d[i].Genre[1], 1, "")} :
           i \in {j \in 1..Len(d) : ~isna(d[j].Genre)}}

unique_stars(d) ==
  UNION {{c[1] : c \in {d[i].Star1, d[i].Star2, d[i].Star3, d[i].Star4} \ {NaN}} :
           i \in 1..Len(d)}

\* df['Released_Year'].dropna().astype(int).unique()
unique_years(d) ==
  {d[i].Released_Year[1] \div 10 : i \in {j \in 1..Len(d) : ~isna(d[j].Released_Year)}}

unique_titles(d) == {d[i].Series_Title[1] : i \in 1..Len(d)}

\* The names each branch of the sidebar block binds (the first binds year,
\* not years)
FindNames == {"selected_tab", "selected_title", "genres", "stars", "year", "min_rating"}
FilterNames == {"selected_tab", "selected_title", "genres", "stars", "years", "min_rating"}

\* The names the test of the if reads: `and` stops at a false left side
IfNames(tab) ==
  {"selected_tab"} \cup (IF tab = FindTab THEN {"selected_title"} ELSE {})

ElifNamesEager(tab, g, s) == {"selected_tab", "genres", "stars", "years"}

\* The names the test of the elif reads: `and` stops at a false left side, `or`
\* at a true one
ElifNames(tab, g, s) ==
  {"selected_tab"} \cup
    (IF tab = FilterTab
     THEN {"genres"} \cup
            (IF g = {} THEN {"stars"} \cup (IF s = {} THEN {"years"} ELSE {}) ELSE {})
     ELSE {})

NoResult == [source |-> "none", rows |-> <<>>, error |-> "none", reads |-> 0]

\* df.sort_values(by="IMDB_Rating", ascending=False).head(10)
default_view(d) ==
  {[source |-> "default", rows |-> head(sorted), error |-> "none", reads |-> 0] :
     sorted \in sort_values(d)}

\* The if / elif / else that picks the results: the names read, and the
\* possible results
dispatch(tab, title, g, s, y, r, bound, d, sim_matrix) ==
  LET first == tab = FindTab /\ title # ""
      second == tab = FilterTab /\ (g # {} \/ s # {} \/ y # {})
      names == IfNames(tab) \cup
                 (IF first THEN {"selected_title"}
                  ELSE ElifNames(tab, g, s) \cup
                         (IF second THEN {"genres", "stars", "years", "min_rating"}
                          ELSE {}))
      outs == IF ~(names \subseteq bound)
              THEN {[NoResult EXCEPT !.error = "NameError"]}
              ELSE IF first THEN {recommend_content(title, d, sim_matrix)}
              ELSE IF second THEN recommend_attributes(d, g, s, y, r)
              ELSE default_view(d)
  IN {[names |-> names, result |-> out] : out \in outs}

-----------------------------------------------------------------------------
(* Source rows *)

Row(title, year, rating, genre, director, s1, s2, s3, s4, overview) ==
  [Series_Title |-> title, Released_Year |-> year, IMDB_Rating |-> rating,
   Genre |-> genre, Director |-> director, Star1 |-> s1, Star2 |-> s2,
   Star3 |-> s3, Star4 |-> s4, Overview |-> overview]

RECURSIVE SeqsUpTo(_, _)
\* the sequences over S of length at most n
SeqsUpTo(S, n) ==
  IF n = 0 THEN {<<>>}
  ELSE LET shorter == SeqsUpTo(S, n - 1)
       IN shorter \cup {Append(s, x) : s \in {t \in shorter : Len(t) = n - 1}, x \in S}

LongExtra == 1

\* The rating text of row k of the long catalog: 8.0 to 9.0, row k and row
\* k + 11 alike
LongRating(k) ==
  IF (7 * k) % 11 = 10 THEN "9.0" ELSE "8." \o Char(Digits, ((7 * k) % 11) + 1)

\* A catalog longer than one result page
LongAttrDataset(n) ==
  [k \in 1..n |->
     Row("Movie", "1995", LongRating(k), "Drama", "Mann", "Al Pacino", "", "", "", "")]

\* The token lists of the catalog that file loads to
CatalogDocs(file) ==
  LET withMeta == add_metadata(load_data(file))
      ok == SelectRows(withMeta, {i \in 1..Len(withMeta) : ~isna(withMeta[i].metadata)})
  IN [i \in 1..Len(ok) |-> Tokenize(ok[i].metadata[1])]

WeightChoices(file) == [PartialPairs(CatalogDocs(file)) -> 1..(SimFull - 1)]

InitCommon ==
  /\ pc = "start"
  /\ cache = <<>>
  /\ df = <<>>
  /\ similarity_matrix = <<>>
  /\ runs = 0 /\ loads = 0 /\ builds = 0
  /\ selected_tab = "" /\ selected_title = ""
  /\ genres = {} /\ stars = {} /\ years = {} /\ min_rating = 0
  /\ defined = {} /\ namesRead = {}
  /\ results = NoResult
  /\ simReads = 0

-----------------------------------------------------------------------------
(* The steps of a script run *)

MaxRuns == 2

\* A run starts (the first, or a rerun after an interaction): df = load_data().
\* st.cache_data runs the body on the first call only and hands every caller
\* its own copy of the stored frame.
RunLoad ==
  /\ pc \in {"start", "dispatched", "raised", "failed"}
  /\ runs < MaxRuns
  /\ runs' = runs + 1
  /\ IF cache = <<>>
     THEN cache' = <<load_data(csv)>> /\ loads' = loads + 1
     ELSE UNCHANGED <<cache, loads>>
  /\ df' = cache'[1]
  /\ similarity_matrix' = <<>>
  /\ selected_tab' = "" /\ selected_title' = ""
  /\ genres' = {} /\ stars' = {} /\ years' = {} /\ min_rating' = 0
  /\ defined' = {} /\ namesRead' = {}
  /\ results' = NoResult
  /\ simReads' = 0
  /\ pc' = "loaded"
  /\ UNCHANGED <<csv, builds, weights>>

\* similarity_matrix = build_similarity_matrix(df)
RunBuild ==
  /\ pc = "loaded"
  /\ LET out == build_similarity_matrix(df, weights)
     IN /\ df' = out.data
        /\ similarity_matrix' = out.matrix
        /\ results' = [NoResult EXCEPT !.error = out.error]
        /\ pc' = IF out.error = "none" THEN "built" ELSE "failed"
  /\ builds' = builds + 1
  /\ UNCHANGED <<csv, cache, runs, loads, selected_tab, selected_title, genres,
                 stars, years, min_rating, defined, namesRead, simReads, weights>>

MaxPicks == 2

SliderValues == {0, 80}

\* The sidebar block: the mode, and the inputs of that mode
RunSidebar ==
  /\ pc = "built"
  /\ \/ /\ selected_tab' = FindTab
        /\ selected_title' \in {""} \cup unique_titles(df)
        /\ genres' = {} /\ stars' = {} /\ min_rating' = 0
        /\ UNCHANGED years
        /\ defined' = FindNames
     \/ /\ selected_tab' = FilterTab
        /\ selected_title' = ""
        /\ \E g \in SUBSET unique_genres(df), s \in SUBSET unique_stars(df),
              y \in SUBSET unique_years(df) :
             /\ Cardinality(g) + Cardinality(s) + Cardinality(y) <= MaxPicks
             /\ genres' = g /\ stars' = s /\ years' = y
        /\ min_rating' \in SliderValues
        /\ defined' = FilterNames
  /\ pc' = "sidebar"
  /\ UNCHANGED <<csv, cache, df, similarity_matrix, runs, loads, builds,
                 namesRead, results, simReads, weights>>

\* The result dispatch
RunDispatch ==
  /\ pc = "sidebar"
  /\ \E out \in dispatch(selected_tab, selected_title, genres, stars, years,
                         min_rating, defined, df, similarity_matrix) :
       /\ results' = out.result
       /\ namesRead' = out.names
       /\ simReads' = out.result.reads
       /\ pc' = IF out.result.error = "none" THEN "dispatched" ELSE "raised"
  /\ UNCHANGED <<csv, cache, df, similarity_matrix, runs, loads, builds,
                 selected_tab, selected_title, genres, stars, years, min_rating,
                 defined, weights>>

MaxScriptRows == 2

ScriptRows ==
  { Row("Heat", "1995", "8.3", "Crime, Drama", "Mann", "Al Pacino", "", "", "", "heist crew"),
    Row("Inception", "2010", "8.8", "Sci-Fi", "Nolan", "Leonardo DiCaprio", "", "", "",
        "dream heist"),
    Row("", "1979", "8.3", "Horror", "Scott", "", "", "", "", ""),
    Row("Alien", "1979", "", "Horror", "", "Sigourney Weaver", "", "", "", "") }

ScriptDatasets ==
  SeqsUpTo(ScriptRows, MaxScriptRows) \cup {LongAttrDataset(HeadCount + 1)}

Init ==
  /\ csv \in ScriptDatasets
  /\ weights \in WeightChoices(csv)
  /\ InitCommon

Next == RunLoad \/ RunBuild \/ RunSidebar \/ RunDispatch

Spec == Init /\ [][Next]_vars

-----------------------------------------------------------------------------
(* load_data on its own *)

MaxLoadRows == 3

LoadRows ==
  { Row("Heat", "1995", "8.3", "Crime, Drama", "Michael Mann",
        "Al Pacino", "Robert De Niro", "Val Kilmer", "Jon Voight", "A heist crew"),
    Row("", "1995", "8.3", "Crime", "Michael Mann", "Al Pacino", "", "", "", "Untitled"),
    Row("NA", "2010", "8.8", "Sci-Fi", "Nolan", "", "", "", "", ""),
    Row("Apollo 13", "PG", "7.6", "Drama", "Ron Howard", "Tom Hanks", "", "", "", ""),
    Row("Alien", "1979", "", "Sci-Fi", "Ridley Scott", "", "", "", "", "In space"),
    Row("Up", "", "n/a", "", "", "", "", "", "", ""),
    Row("Zero", "0", "0.0", "Drama", "X", "", "", "", "", "") }

LoadInit ==
  /\ csv \in SeqsUpTo(LoadRows, MaxLoadRows)
  /\ weights = <<>>
  /\ InitCommon

LoadNext == RunLoad

LoadSpec == LoadInit /\ [][LoadNext]_vars

-----------------------------------------------------------------------------
(* recommend_content called on a loaded catalog and its matrix *)

QueryContent(title) ==
  /\ pc = "built"
  /\ selected_title' = title
  /\ results' = recommend_content(title, df, similarity_matrix)
  /\ simReads' = recommend_content(title, df, similarity_matrix).reads
  /\ pc' = "queried"
  /\ UNCHANGED <<csv, cache, df, similarity_matrix, runs, loads, builds,
                 selected_tab, genres, stars, years, min_rating, defined,
                 namesRead, weights>>

MaxContentRows == 3

ContentRows ==
  { Row("Heat", "1995", "8.3", "Crime", "Mann", "Pacino", "", "", "", "heist crew"),
    Row("Heat 2", "2025", "", "Crime", "Mann", "Pacino", "", "", "", "The heist crew"),
    Row("Thief", "1981", "7.4", "Crime", "Mann", "Caan", "", "", "", "A safe"),
    Row("Up", "2009", "8.3", "Animation", "Docter", "Asner", "", "", "", ""),
    Row("Blank", "", "", "", "-", "", "", "", "", ""),
    Row("", "1995", "8.3", "Crime", "Mann", "Pacino", "", "", "", "heist crew") }

\* A catalog longer than one result page: every third row is "Up", the others
\* alternate between "Thief" and "Heat"
LongContentDataset(n) ==
  [k \in 1..n |->
     IF k % 3 = 0
     THEN Row("Up", "2009", "8.3", "Animation", "Docter", "Asner", "", "", "", "")
     ELSE IF k % 2 = 0
     THEN Row("Thief", "1981", "7.4", "Crime", "Mann", "Caan", "", "", "", "A safe")
     ELSE Row("Heat", "1995", "8.3", "Crime", "Mann", "Pacino", "", "", "", "heist crew")]

ContentDatasets ==
  SeqsUpTo(ContentRows, MaxContentRows)
    \cup {LongContentDataset(n) : n \in ContentSliceEnd..(ContentSliceEnd + LongExtra)}

QueryTitles == {"Heat", "Heat 2", "Thief", "Up", "Blank", "Casablanca", ""}

ContentInit ==
  /\ csv \in ContentDatasets
  /\ weights \in WeightChoices(csv)
  /\ InitCommon

ContentNext ==
  \/ RunLoad
  \/ RunBuild
  \/ \E title \in QueryTitles : QueryContent(title)

ContentSpec == ContentInit /\ [][ContentNext]_vars

-----------------------------------------------------------------------------
(* recommend_attributes called on a loaded catalog *)

QueryAttributes(g, s, y, r) ==
  /\ pc = "loaded"
  /\ genres' = g /\ stars' = s /\ years' = y /\ min_rating' = r
  /\ \E out \in recommend_attributes(df, g, s, y, r) : results' = out
  /\ simReads' = 0
  /\ pc' = "queried"
  /\ UNCHANGED <<csv, cache, df, similarity_matrix, runs, loads, builds,
                 selected_tab, selected_title, defined, namesRead, weights>>

MaxAttrRows == 3

AttrRows ==
  { Row("Heat", "1995", "8.3", "Crime, Drama", "Mann",
        "Al Pacino", "Robert De Niro", "Val Kilmer", "Jon Voight", ""),
    Row("Inception", "2010", "8.8", "Action, Sci-Fi", "Nolan",
        "Leonardo DiCaprio", "", "", "", ""),
    Row("Alien", "1979", "", "Horror, Sci-Fi", "Scott", "Sigourney Weaver", "", "", "", ""),
    Row("Apollo 13", "PG", "8.3", "Drama", "Howard", "Tom Hanks", "Al", "", "", ""),
    Row("Zero", "1995", "0.0", "Melodrama", "X", "", "", "", "", "") }

AttrDatasets ==
  SeqsUpTo(AttrRows, MaxAttrRows)
    \cup {LongAttrDataset(n) : n \in (HeadCount + 1)..(HeadCount + 1 + LongExtra)}

GenreArgs == {"Drama", "Sci"}
StarArgs == {"Al Pacino", "Al"}
YearArgs == {1995, 2010}
RatingArgs == {0, 83, 85}

AttrInit ==
  /\ csv \in AttrDatasets
  /\ weights = <<>>
  /\ InitCommon

AttrNext ==
  \/ RunLoad
  \/ \E g \in SUBSET GenreArgs, s \in SUBSET StarArgs, y \in SUBSET YearArgs,
        r \in RatingArgs : QueryAttributes(g, s, y, r)

AttrSpec == AttrInit /\ [][AttrNext]_vars

-----------------------------------------------------------------------------
(* Properties of load_data (LoadSpec) *)

TitleMissing(i) == csv[i].Series_Title \in NaValues

\* What a kept row's numeric cell must hold for the text in the file
NumberOf(text) == IF text \in NaValues THEN NaN ELSE ParseTenths(text)

\* C9: loading drops exactly the rows whose title is missing and keeps the
\* others in their original order; the catalog has the file's row count minus
\* the title-missing rows; a year or rating that does not parse is unknown in
\* the kept row, never 0, and does not drop the row.
C9_LoadDropsOnlyUntitled ==
  pc = "loaded" =>
    /\ Len(df) = Len(csv) - Cardinality({i \in 1..Len(csv) : TitleMissing(i)})
    /\ {df[k].index : k \in 1..Len(df)} = {i \in 1..Len(csv) : ~TitleMissing(i)}
    /\ \A k, l \in 1..Len(df) : k < l => df[k].index < df[l].index
    /\ \A k \in 1..Len(df) :
         LET src == csv[df[k].index]
         IN /\ df[k].Series_Title = <<src.Series_Title>>
            /\ df[k].IMDB_Rating = NumberOf(src.IMDB_Rating)
            /\ df[k].Released_Year = NumberOf(src.Released_Year)
            /\ df[k].IMDB_Rating = <<0>> => src.IMDB_Rating \in {"0", "0.0"}
            /\ df[k].Released_Year = <<0>> => src.Released_Year \in {"0", "0.0"}

\* A load that dropped a title-missing row and kept a row whose year is text
\* that is no number and a row whose rating is blank
C9_Witness ==
  /\ pc = "loaded"
  /\ \E i \in 1..Len(csv) : TitleMissing(i)
  /\ \E k \in 1..Len(df) :
       csv[df[k].index].Released_Year = "PG" /\ isna(df[k].Released_Year)
  /\ \E k \in 1..Len(df) :
       csv[df[k].index].IMDB_Rating = "" /\ isna(df[k].IMDB_Rating)

-----------------------------------------------------------------------------
(* Properties of recommend_content (ContentSpec) *)

DistinctTitles ==
  \A i, j \in 1..Len(df) : df[i].Series_Title = df[j].Series_Title => i = j

FirstTitleRow(title) == FirstOf(TitleRows(df, title))

\* C1: the result of recommend_content(m.title, df, sim_matrix) never contains
\* m itself (stated for catalogs whose titles are distinct, where m is the one
\* row carrying the title).
C1_ResultExcludesQueryMovie ==
  (pc = "queried" /\ DistinctTitles) =>
    \A k \in 1..Len(results.rows) : results.rows[k].Series_Title # <<selected_title>>

\* C2: a title that no catalog row carries gives an empty result and no error,
\* and the similarity matrix is not read.
C2_AbsentTitleEmptyResult ==
  (pc = "queried" /\ TitleRows(df, selected_title) = {}) =>
    /\ results.rows = <<>>
    /\ results.error = "none"
    /\ simReads = 0

\* A query for a title that is not in a non-empty catalog with a built matrix
C2_Witness ==
  /\ pc = "queried"
  /\ selected_title = "Casablanca"
  /\ TitleRows(df, selected_title) = {}
  /\ Len(df) >= 2
  /\ Len(similarity_matrix) = Len(df)

\* C3: for a title in the catalog the result is the movies at ranks 2..11 of
\* the similarity row of the first catalog row carrying the title, by descending
\* similarity with ties in catalog order: min(10, N-1) movies, with no error,
\* also when title-missing rows were dropped at load.
C3_RanksTwoToEleven ==
  (pc = "queried" /\ TitleRows(df, selected_title) # {}) =>
    LET scores == similarity_matrix[FirstTitleRow(selected_title)]
        order == SortedDesc(scores, Len(scores))
    IN /\ results.error = "none"
       /\ Len(results.rows) = Min(10, Len(df) - 1)
       /\ results.rows = iloc(df, SubSeq(order, 2, Min(11, Len(order))))

-----------------------------------------------------------------------------
(* Properties of recommend_attributes (AttrSpec) *)

Cast(r) == {r.Star1[1], r.Star2[1], r.Star3[1], r.Star4[1]}

Passes(r) ==
  /\ genres # {} => \E g \in genres : contains(g, r.Genre[1])
  /\ stars # {} => Cast(r) \cap stars # {}
  /\ years # {} => (r.Released_Year # NaN /\ \E y \in years : r.Released_Year = <<10 * y>>)
  /\ r.IMDB_Rating # NaN
  /\ r.IMDB_Rating[1] >= min_rating

Returned == {results.rows[k] : k \in 1..Len(results.rows)}

\* C4: every movie recommend_attributes returns satisfies all active predicates:
\* a requested genre is a substring of its genre field, one of its four cast
\* fields equals a requested star, its year is known and requested, and its
\* rating is known and >= rating; an empty genres, stars or years does not
\* constrain.
C4_ReturnedPassAllPredicates ==
  pc = "queried" => \A r \in Returned : Passes(r)

\* A query with all three filters set that returns a movie whose genre field
\* is longer than the genre requested
C4_Witness ==
  /\ pc = "queried"
  /\ genres # {} /\ stars # {} /\ years # {}
  /\ \E r \in Returned : r.Genre[1] \notin genres

\* C5: recommend_attributes never returns a movie whose rating is unknown,
\* whatever the minimum rating (0 included) and the other filters.
C5_UnknownRatingNeverReturned ==
  pc = "queried" =>
    \A r \in Returned :
      /\ r.IMDB_Rating # NaN
      /\ csv[r.index].IMDB_Rating \notin NaValues
      /\ ParseTenths(csv[r.index].IMDB_Rating) # NaN

\* A query with minimum rating 0 and no other filter, over a catalog holding a
\* movie of unknown rating, that returns some movie
C5_Witness ==
  /\ pc = "queried"
  /\ min_rating = 0 /\ genres = {} /\ stars = {} /\ years = {}
  /\ \E i \in 1..Len(df) : isna(df[i].IMDB_Rating)
  /\ results.rows # <<>>

PassingRows == {df[i] : i \in {j \in 1..Len(df) : Passes(df[j])}}

\* C6 as stated: the first 10 (or all) of the passing movies by descending
\* rating, movies of equal rating in catalog order.
C6_StableTopTen ==
  pc = "queried" =>
    /\ Returned \subseteq PassingRows
    /\ Len(results.rows) = Min(10, Cardinality(PassingRows))
    /\ \A k, l \in 1..Len(results.rows) : k < l =>
         \/ results.rows[k].IMDB_Rating[1] > results.rows[l].IMDB_Rating[1]
         \/ /\ results.rows[k].IMDB_Rating = results.rows[l].IMDB_Rating
            /\ results.rows[k].index < results.rows[l].index
    /\ \A p \in PassingRows \ Returned : \A r \in Returned :
         \/ r.IMDB_Rating[1] > p.IMDB_Rating[1]
         \/ r.IMDB_Rating = p.IMDB_Rating /\ r.index < p.index

\* C6, amended: the result holds min(10, passing) distinct passing movies by
\* descending rating, and no passing movie rated strictly higher than a
\* returned one is left out; the order among movies of equal rating is open.
C6_TopTenByRating ==
  pc = "queried" =>
    /\ Returned \subseteq PassingRows
    /\ Len(results.rows) = Min(10, Cardinality(PassingRows))
    /\ Cardinality(Returned) = Len(results.rows)
    /\ \A k, l \in 1..Len(results.rows) : k < l =>
         results.rows[k].IMDB_Rating[1] >= results.rows[l].IMDB_Rating[1]
    /\ \A p \in PassingRows \ Returned : \A r \in Returned :
         r.IMDB_Rating[1] >= p.IMDB_Rating[1]

\* A query that more than 10 movies pass, two of them rated alike, cut to 10
C6_Witness ==
  /\ pc = "queried"
  /\ Cardinality(PassingRows) > 10
  /\ Len(results.rows) = 10
  /\ \E p, q \in PassingRows : p # q /\ p.IMDB_Rating = q.IMDB_Rating

-----------------------------------------------------------------------------
(* Properties of the script runs (Spec) *)

\* C7: over the runs against one loaded catalog the similarity matrix is built
\* exactly once: the builds never outnumber the executions of load_data's body.
C7_MatrixBuiltOncePerLoad ==
  pc \notin {"start", "loaded"} => builds = loads

\* C8: once load_data has returned the catalog, no later step of the run
\* changes its rows, their order or their fields, and the result dispatch
\* leaves the similarity matrix unchanged.
C8_CatalogNeverChanges ==
  [][(pc # "start" /\ runs' = runs) =>
       /\ df' = df
       /\ pc = "sidebar" => similarity_matrix' = similarity_matrix]_vars

DispatchRan == pc \in {"dispatched", "raised"}

RatingRank(r) == IF isna(r.IMDB_Rating) THEN -1 ELSE r.IMDB_Rating[1]

\* C10: the result dispatch picks exactly one source: recommend_content in
\* Find mode with a non-empty title, recommend_attributes in Filter mode with a
\* non-empty genres, stars or years, else the 10 highest-rated movies; so
\* recommend_attributes never runs with all three empty, and no name is read
\* that the chosen mode did not bind.
C10_OneSourcePerRun ==
  DispatchRan =>
    /\ results.error # "NameError"
    /\ namesRead \subseteq defined
    /\ results.source =
         IF selected_tab = FindTab /\ selected_title # "" THEN "recommend_content"
         ELSE IF selected_tab = FilterTab /\ (genres # {} \/ stars # {} \/ years # {})
              THEN "recommend_attributes"
              ELSE "default"
    /\ results.source = "recommend_attributes" =>
         ~(genres = {} /\ stars = {} /\ years = {})
    /\ results.source = "default" =>
         /\ Len(results.rows) = Min(10, Len(df))
         /\ \A k \in 1..Len(results.rows) : \E i \in 1..Len(df) : results.rows[k] = df[i]
         /\ \A i \in 1..Len(df) :
              (\A k \in 1..Len(results.rows) : results.rows[k] # df[i]) =>
                \A k \in 1..Len(results.rows) :
                  RatingRank(results.rows[k]) >= RatingRank(df[i])

\* A run in Find mode with no title picked, where years is not bound, that
\* shows the default view
C10_Witness ==
  /\ pc = "dispatched"
  /\ selected_tab = FindTab /\ selected_title = ""
  /\ "years" \notin defined
  /\ results.source = "default"
  /\ results.rows # <<>>

====
